---- MODULE Spec2Model ----
(***************************************************************************)
(* tchat: the REPL foreground loop of main(), its SIGINT listener          *)
(* goroutine, the streaming generation of flows.ChatFlow.generate and the  *)
(* bounded conversation window of history.HistoryManager.                  *)
(*                                                                         *)
(* Text is modelled as a sequence of characters, so that concatenating     *)
(* chunks is sequence concatenation.  Time is the number of milliseconds   *)
(* elapsed since generate() read startTime.                                *)
(***************************************************************************)
EXTENDS Integers, Sequences, FiniteSets, TLC

(* ------------------------------ bounds -------------------------------- *)
MaxTurns == 2        \* chat turns started by the foreground loop
MaxSignals == 2      \* SIGINTs raised by the environment
MaxChunks == 2       \* chunks the backend streams in one generation
MaxElapsed == 1      \* milliseconds a generation is observed for
MaxCap == 2          \* largest maxMessages option tried on a history window
MaxOps == 3          \* operations applied to a history window
MaxOver == 2         \* appends past the default capacity (capacity specification)
MaxWrites == 2       \* mutations of the window under concurrent readers
MaxReads == 2        \* reads of the window under a concurrent writer
MaxGenElapsed == 2   \* milliseconds one call of generate() is observed for
MaxImages == 2        \* image paths in one request
MaxLineLen == 4       \* symbols in a line under resolution
MaxRuns == 3          \* starts of the process over one table
MaxStoreTurns == 3    \* successful turns over those runs
MaxModels == 2        \* models registered
MaxCmds == 4          \* commands and turns at the prompt

(* ------------------------- program constants -------------------------- *)
DefaultMaxMessages == 5
MainMaxMessages == 5
SigChanCap == 1

Nil == 0             \* genCancel == nil; also the tag of "no turn armed"
ZeroTime == -1       \* the zero time.Time of firstChunkTime

Inputs == {<<"h", "i">>}

\* The text of the i-th chunk the backend streams: "Hel", "lo", "!", ...
ChunkAt(i) ==
  <<<<"H", "e", "l">>, <<"l", "o">>, <<"!">>>>[((i - 1) % 3) + 1]

UserMessage(text) == [role |-> "user", text |-> text]
ModelMessage(text) == [role |-> "model", text |-> text]

(* ------------------------ text, paths and images ---------------------- *)
\* A string is a sequence of symbols: the characters the code tells apart
\* (" ", ".", "/", trailing punctuation), a scheme or directory prefix that
\* ends in a separator ("http://", "https://", "~/", "/home/"), or a run of
\* other characters ("describe", "png").

\* strings.ToLower on one symbol
Lower(c) ==
  CASE c = "PNG" -> "png"
    [] c = "JPG" -> "jpg"
    [] c = "A" -> "a"
    [] c = "OLLAMA/" -> "ollama/"
    [] OTHER -> c

ToLower(str) == [i \in 1..Len(str) |-> Lower(str[i])]

\* os.IsPathSeparator on the last character of a symbol
IsPathSeparator(c) == c \in {"/", "~/", "/home/", "http://", "https://"}

\* filepath.Ext: the suffix from the last dot of the last path element
Ext(path) ==
  LET dots == {i \in 1..Len(path) :
                 /\ path[i] = "."
                 /\ \A j \in i..Len(path) : ~IsPathSeparator(path[j])}
      last == CHOOSE i \in dots : \A k \in dots : k <= i
  IN IF dots = {} THEN <<>> ELSE SubSeq(path, last, Len(path))

\* media.SupportedImageFormats: extension to MIME type
SupportedImageFormats ==
  [e \in {<<".", "jpg">>, <<".", "jpeg">>, <<".", "png">>, <<".", "gif">>,
          <<".", "webp">>, <<".", "bmp">>} |->
     CASE e[2] \in {"jpg", "jpeg"} -> "image/jpeg"
       [] e[2] = "png" -> "image/png"
       [] e[2] = "gif" -> "image/gif"
       [] e[2] = "webp" -> "image/webp"
       [] e[2] = "bmp" -> "image/bmp"]

\* strings.Fields: the maximal runs of symbols that are not white space
RECURSIVE Fields(_)
Fields(str) ==
  IF str = <<>> THEN <<>>
  ELSE IF Head(str) = " " THEN Fields(Tail(str))
  ELSE LET spaces == {i \in 1..Len(str) : str[i] = " "}
           stop == IF spaces = {} THEN Len(str) + 1
                   ELSE CHOOSE i \in spaces : \A k \in spaces : i <= k
       IN <<SubSeq(str, 1, stop - 1)>> \o Fields(SubSeq(str, stop, Len(str)))

\* strings.TrimSpace
RECURSIVE TrimSpace(_)
TrimSpace(str) ==
  IF str = <<>> THEN <<>>
  ELSE IF Head(str) = " " THEN TrimSpace(Tail(str))
  ELSE IF str[Len(str)] = " " THEN TrimSpace(SubSeq(str, 1, Len(str) - 1))
  ELSE str

\* strings.TrimRight(str, cutset)
RECURSIVE TrimRight(_, _)
TrimRight(str, cutset) ==
  IF str # <<>> /\ str[Len(str)] \in cutset
  THEN TrimRight(SubSeq(str, 1, Len(str) - 1), cutset)
  ELSE str

\* strings.Join(tokens, " ")
RECURSIVE Join(_)
Join(tokens) ==
  IF tokens = <<>> THEN <<>>
  ELSE IF Len(tokens) = 1 THEN Head(tokens)
  ELSE Head(tokens) \o <<" ">> \o Join(Tail(tokens))

\* media.ExtractImagePaths: the words whose lower-cased extension is supported
RECURSIVE ExtractFrom(_)
ExtractFrom(words) ==
  IF words = <<>> THEN <<>>
  ELSE (IF ToLower(Ext(Head(words))) \in DOMAIN SupportedImageFormats
        THEN <<Head(words)>> ELSE <<>>) \o ExtractFrom(Tail(words))

ExtractImagePaths(input) == ExtractFrom(Fields(input))

\* LoadImage: strings.HasPrefix(path, "~/") and the home directory joined in
ExpandHome(path) ==
  IF path # <<>> /\ Head(path) = "~/" THEN <<"/home/">> \o Tail(path) ELSE path

IsURL(path) == path # <<>> /\ Head(path) \in {"http://", "https://"}

\* The file system and network as LoadImage finds them: whether the home
\* directory resolves, and the files that can be read and URLs that answer
\* 200, each with the Content-Type header it is served with ("" for none).
Readable(env, path) == \E f \in env.files : f.path = path
ContentType(env, path) == (CHOOSE f \in env.files : f.path = path).ctype

\* No file can be read, no URL answers.
NoFiles == [home |-> TRUE, files |-> {}]

\* What LoadImage returns for an error.
LoadError == [ok |-> FALSE]

\* media.LoadImage: the image reference (ok), or an error
LoadImage(env, path) ==
  IF path # <<>> /\ Head(path) = "~/" /\ ~env.home THEN LoadError
  ELSE LET p == ExpandHome(path)
           ext == ToLower(Ext(p))
       IN IF IsURL(p)
          THEN \* loadImageFromURL
               IF ~Readable(env, p) THEN LoadError
               ELSE [ok |-> TRUE, Path |-> p,
                     MimeType |-> IF ContentType(env, p) # "" THEN ContentType(env, p)
                                  ELSE IF ext \in DOMAIN SupportedImageFormats
                                       THEN SupportedImageFormats[ext]
                                       ELSE "image/jpeg"]
          ELSE \* loadImageFromFile
               IF ext \notin DOMAIN SupportedImageFormats THEN LoadError
               ELSE IF ~Readable(env, p) THEN LoadError
               ELSE [ok |-> TRUE, Path |-> p, MimeType |-> SupportedImageFormats[ext]]

\* Mutant: the loop over the paths stops at the first image that fails.
RECURSIVE LoadImages_StopsAtFailure(_, _)
LoadImages_StopsAtFailure(env, paths) ==
  IF paths = <<>> THEN <<>>
  ELSE IF ~LoadImage(env, Head(paths)).ok THEN <<>>
  ELSE <<LoadImage(env, Head(paths))>> \o LoadImages_StopsAtFailure(env, Tail(paths))

\* generate(): for _, path := range req.ImagePaths, with continue on an error
RECURSIVE LoadImages(_, _)
LoadImages(env, paths) ==
  IF paths = <<>> THEN <<>>
  ELSE (IF ~LoadImage(env, Head(paths)).ok THEN <<>>
        ELSE <<LoadImage(env, Head(paths))>>) \o LoadImages(env, Tail(paths))

\* ImageReference.ToMediaPart
ToMediaPart(img) == [mime |-> img.MimeType, src |-> img.Path]

\* media.BuildMultimodalMessage: the text part, then one media part per image
BuildMultimodalMessage(text, images) ==
  [role |-> "user", text |-> text,
   media |-> [i \in 1..Len(images) |-> ToMediaPart(images[i])]]

\* generate(): the current message
CurrentMessage(text, images) ==
  IF Len(images) > 0 THEN BuildMultimodalMessage(text, images)
  ELSE UserMessage(text)

\* Mutant: the current message is put before the history.
BuildMessages_CurrentFirst(history, current) == <<current>> \o history

\* generate(): messages = append(messages, req.History...);
\* messages = append(messages, currentMessage)
BuildMessages(history, current) == Append(<<>> \o history, current)

VARIABLES
  pc,             \* position of the foreground goroutine in main()
  lpc,            \* position of the signal-listener goroutine
  mu,             \* holder of the cancellation mutex: "free", "main", "listener"
  genCancel,      \* Nil, or the turn whose cancel function is stored
  canceled,       \* turns whose genCtx has Err() == context.Canceled
  turn,           \* number of the latest armed turn
  sigChan,        \* the buffered channel of pending signals
  lisSig,         \* the signal the listener is handling
  nSig,           \* SIGINTs raised so far
  storeOk,        \* store != nil
  dbTurns,        \* rows written by SaveTurn
  dbHistory,      \* rows of the chat_history table
  lastResponse,   \* the package variable lastResponse
  optMax,         \* the n given to WithMaxMessages at construction
  maxMessages,    \* HistoryManager.config.maxMessages
  messages,       \* HistoryManager.messages
  userInput,      \* the trimmed line of the current turn
  imagePaths,     \* ChatRequest.ImagePaths of the current turn
  fs,             \* the files and URLs LoadImage can read, and the home directory
  reqHistory,     \* ChatRequest.History of the current call
  sent,           \* the messages generate() hands to the backend
  arrivals,       \* the time of every chunk callback of the running call
  elapsed,        \* milliseconds since generate() started
  chunkCount,     \* generate(): chunkCount
  firstChunkTime, \* generate(): firstChunkTime (ZeroTime when unset)
  output,         \* text accumulated by the backend
  sunk,           \* chunk texts written to the terminal by streamCallback
  resp,           \* the ChatResponse returned to main
  outcome,        \* how main reported the latest turn
  endCause,       \* why the backend call of the current turn returned
  nCancels,       \* times the listener cancelled and announced the armed turn
  cancelAt,       \* generation metrics at the listener's first cancel of a call
  appended,       \* every message handed to Add, in order
  nOps,           \* history operations applied (history specifications)
  heap,           \* the backing arrays allocated for message slices
  hslice,         \* HistoryManager.messages as a slice: array, offset, length
  hmu,            \* HistoryManager.mu: write-locked flag and number of readers
  wpc,            \* position of the goroutine that mutates the window
  warg,           \* the messages given to the mutation in progress
  pre,            \* the window when the mutation in progress took the lock
  post,           \* the window the mutation in progress is to leave
  rpc,            \* position of the goroutine that reads the window
  got,            \* what the latest read returned
  snap,           \* the slice the latest GetAll returned
  nReads,         \* reads started
  rawLine,        \* the raw line under resolution (parser specification)
  parsed,         \* the ParsedInput values parser.ParseLine returned
  term,           \* the writes made to the terminal, in order
  cbpc,           \* position of streamCallback: "idle" or "write"
  firstChunk,     \* main: firstChunk
  chatHistory,    \* the rows of table chat_history: id, role, content
  lastId,         \* the AUTOINCREMENT sequence of chat_history
  lastSaved,      \* the argument of the latest SaveHistory that committed
  dbLoad,         \* what the latest LoadHistory returned
  run,            \* the process over its runs: "down", "started", "up"; count
  availableModels, \* the models registered at startup
  model,          \* appstate.State.model
  cmd             \* the latest command or turn run at the prompt

vars == <<pc, lpc, mu, genCancel, canceled, turn, sigChan, lisSig, nSig,
          storeOk, dbTurns, dbHistory, lastResponse, optMax, maxMessages,
          messages,
          userInput, imagePaths, fs, reqHistory, sent, arrivals, elapsed,
          chunkCount, firstChunkTime, output,
          sunk, resp, outcome, endCause, nCancels, cancelAt,
          appended, nOps,
          heap, hslice, hmu, wpc, warg, pre, post, rpc, got, snap, nReads,
          rawLine, parsed, term, cbpc, firstChunk,
          chatHistory, lastId, lastSaved, dbLoad, run,
          availableModels, model, cmd>>

muVars == <<mu, genCancel>>
sigVars == <<sigChan, lisSig, nSig>>
storeVars == <<storeOk, dbTurns, dbHistory>>
histVars == <<optMax, maxMessages, messages, appended, nOps>>
genVars == <<userInput, imagePaths, fs, reqHistory, sent, arrivals, elapsed,
             chunkCount, firstChunkTime, output, sunk, resp>>
logVars == <<outcome, endCause, nCancels, cancelAt>>
concVars == <<heap, hslice, hmu, wpc, warg, pre, post, rpc, got, snap, nReads>>
parseVars == <<rawLine, parsed>>
termVars == <<term, cbpc, firstChunk>>
tableVars == <<chatHistory, lastId, lastSaved, dbLoad, run>>
cmdVars == <<availableModels, model, cmd>>
apiVars == <<concVars, parseVars, termVars, tableVars, cmdVars>>

(* ------------------------- history.HistoryManager --------------------- *)
\* Mutant: zero is replaced by the default as well.
NormalizeMaxMessages_ZeroToo(n) == IF n <= 0 THEN DefaultMaxMessages ELSE n

\* NewHistoryManager: if cfg.maxMessages < 0 { cfg.maxMessages = 5 }
NormalizeMaxMessages(n) == IF n < 0 THEN DefaultMaxMessages ELSE n

\* Mutant: the window keeps its oldest messages instead of its newest.
enforceLimits_KeepsOldest(msgs, max) ==
  IF max > 0 /\ Len(msgs) > max THEN SubSeq(msgs, 1, max)
  ELSE msgs

\* enforceLimits: keep only the last maxMessages
enforceLimits(msgs, max) ==
  IF max > 0 /\ Len(msgs) > max THEN SubSeq(msgs, Len(msgs) - max + 1, Len(msgs))
  ELSE msgs

HistAdd(msgs, max, msg) == enforceLimits(Append(msgs, msg), max)

HistSet(msgs) == IF Len(msgs) = 0 THEN <<>> ELSE msgs

HistClear == <<>>

GetAll(msgs) == [i \in 1..Len(msgs) |-> msgs[i]]

Count(msgs) == Len(msgs)

\* No listener cancel recorded for the running generation.
NoCancel == [set |-> FALSE, chunks |-> 0, elapsed |-> 0, first |-> ZeroTime]

(* ------------------ slices of messages and their arrays --------------- *)
NoMsg == [role |-> "none", text |-> <<>>]          \* a nil slot of an array
EmptySlice == [arr |-> 0, off |-> 0, len |-> 0]    \* []*ai.Message{}
Unlocked == [writer |-> FALSE, readers |-> 0]      \* a sync.RWMutex nobody holds
NoRead == [op |-> "none", val |-> <<>>]

\* The elements a slice shows of its array.
View(h, s) == [i \in 1..s.len |-> h[s.arr][s.off + i]]

\* cap(s)
SliceCap(h, s) == IF s.arr = 0 THEN 0 ELSE Len(h[s.arr]) - s.off

\* make([]*ai.Message, n): a fresh array of n nil slots and the slice of all of it
Make(h, n) ==
  [heap |-> Append(h, [i \in 1..n |-> NoMsg]),
   slice |-> [arr |-> Len(h) + 1, off |-> 0, len |-> n]]

\* copy(dst, src) with len(dst) = len(src): writes the array of dst in place
CopyInto(h, dst, src) ==
  IF dst.len = 0 THEN h
  ELSE [h EXCEPT ![dst.arr] =
          [i \in 1..Len(@) |-> IF i > dst.off /\ i <= dst.off + dst.len
                               THEN src[i - dst.off] ELSE @[i]]]

\* The capacity append gives the array it allocates when the old one is full.
GrowCap(c) == IF c = 0 THEN 1 ELSE 2 * c

\* append(s, m): in place while the array has room, else into a new array
SliceAppend(h, s, m) ==
  IF s.len < SliceCap(h, s)
  THEN [heap |-> [h EXCEPT ![s.arr][s.off + s.len + 1] = m],
        slice |-> [s EXCEPT !.len = s.len + 1]]
  ELSE LET old == View(h, s)
           n == GrowCap(SliceCap(h, s))
       IN [heap |-> Append(h, [i \in 1..n |-> IF i <= s.len THEN old[i]
                                              ELSE IF i = s.len + 1 THEN m
                                              ELSE NoMsg]),
           slice |-> [arr |-> Len(h) + 1, off |-> 0, len |-> s.len + 1]]

\* enforceLimits on the slice: msgs = msgs[len(msgs)-maxMessages:]
SliceEnforce(s, max) ==
  IF max > 0 /\ s.len > max
  THEN [s EXCEPT !.off = s.off + (s.len - max), !.len = max]
  ELSE s

\* GetStats: the counts by role
Stats(msgs) ==
  [TotalMessages |-> Len(msgs),
   UserMessages |-> Cardinality({i \in 1..Len(msgs) : msgs[i].role = "user"}),
   AssistantMessages |-> Cardinality({i \in 1..Len(msgs) : msgs[i].role = "model"})]

\* The chat_history table untouched.
TableAtRest ==
  /\ chatHistory = {} /\ lastId = 0 /\ lastSaved = <<>>
  /\ dbLoad = <<>> /\ run = [at |-> "down", n |-> 0]

\* No command registry yet.
CmdAtRest ==
  /\ availableModels = <<>> /\ model = <<>>
  /\ cmd = [name |-> "none", selection |-> <<>>]

\* The concurrent window and the parser at rest.
ApiAtRest ==
  /\ heap = <<>> /\ hslice = EmptySlice /\ hmu = Unlocked
  /\ wpc = "idle" /\ warg = <<>> /\ pre = <<>> /\ post = <<>>
  /\ rpc = "idle" /\ got = NoRead /\ snap = EmptySlice /\ nReads = 0
  /\ rawLine = <<>> /\ parsed = <<>>
  /\ term = <<>> /\ cbpc = "idle" /\ firstChunk = TRUE
  /\ TableAtRest
  /\ CmdAtRest

(* --------------- the history window on its own (API level) ------------ *)
HistMsgs == {UserMessage(<<"u">>), UserMessage(<<"v">>), ModelMessage(<<"m">>)}

RECURSIVE SeqsUpTo(_, _)
SeqsUpTo(S, n) ==
  IF n = 0 THEN {<<>>}
  ELSE LET shorter == SeqsUpTo(S, n - 1)
       IN shorter \cup {Append(s, x) : s \in {t \in shorter : Len(t) = n - 1}, x \in S}

\* Everything outside the history window, at rest.
MainAtRest ==
  /\ pc = "none" /\ lpc = "none" /\ mu = "free" /\ genCancel = Nil
  /\ canceled = {} /\ turn = 0 /\ sigChan = <<>> /\ lisSig = Nil /\ nSig = 0
  /\ storeOk = FALSE /\ dbTurns = <<>> /\ dbHistory = <<>> /\ lastResponse = <<>>
  /\ userInput = <<>> /\ imagePaths = <<>> /\ fs = NoFiles
  /\ reqHistory = <<>> /\ sent = <<>> /\ arrivals = <<>>
  /\ elapsed = 0 /\ chunkCount = 0
  /\ firstChunkTime = ZeroTime /\ output = <<>> /\ sunk = <<>>
  /\ resp = [Output |-> <<>>, DurationMs |-> 0, TTFCMs |-> 0, Chunks |-> 0,
             Error |-> "nil", ImagesLoaded |-> 0]
  /\ outcome = "none" /\ endCause = "none"
  /\ nCancels = 0 /\ cancelAt = NoCancel

mainVars == <<pc, lpc, mu, genCancel, canceled, turn, sigChan, lisSig, nSig,
              storeOk, dbTurns, dbHistory, lastResponse, userInput, imagePaths,
              fs, reqHistory, sent, arrivals,
              elapsed, chunkCount, firstChunkTime, output, sunk, resp, outcome,
              endCause, nCancels, cancelAt>>

\* NewHistoryManager(WithMaxMessages(n))
NewHistoryManager(n) ==
  /\ optMax = n
  /\ maxMessages = NormalizeMaxMessages(n)
  /\ messages = <<>>

HistInit ==
  /\ MainAtRest
  /\ ApiAtRest
  /\ \E n \in -1..MaxCap : NewHistoryManager(n)
  /\ appended = <<>>
  /\ nOps = 0

\* HistoryManager.Add (AddUserMessage, AddAssistantMessage) of a message of M,
\* while fewer than limit operations were applied
AddOf(limit, M) ==
  /\ nOps < limit
  /\ \E msg \in M :
       /\ messages' = HistAdd(messages, maxMessages, msg)
       /\ appended' = Append(appended, msg)
  /\ nOps' = nOps + 1
  /\ UNCHANGED <<apiVars, optMax, maxMessages, mainVars>>

Add == AddOf(MaxOps, HistMsgs)

\* HistoryManager.Set
Set ==
  /\ nOps < MaxOps
  /\ \E msgs \in SeqsUpTo(HistMsgs, MaxCap + 1) :
       /\ messages' = HistSet(msgs)
       /\ appended' = msgs
  /\ nOps' = nOps + 1
  /\ UNCHANGED <<apiVars, optMax, maxMessages, mainVars>>

\* HistoryManager.Clear
Clear ==
  /\ nOps < MaxOps
  /\ messages' = HistClear
  /\ appended' = <<>>
  /\ nOps' = nOps + 1
  /\ UNCHANGED <<apiVars, optMax, maxMessages, mainVars>>

AppendNext == Add
SpecAppend == HistInit /\ [][AppendNext]_vars

HistNext == Add \/ Set \/ Clear
SpecHistory == HistInit /\ [][HistNext]_vars

\* The window under Set alone: appended is the argument of the latest Set.
SetNext == Set
SpecSet == HistInit /\ [][SetNext]_vars

\* A window built with a capacity option that is zero or negative, appended to
\* until it holds more than the default capacity would allow.
CapMsgs == {UserMessage(<<"u">>), ModelMessage(<<"m">>)}

CapInit ==
  /\ MainAtRest
  /\ ApiAtRest
  /\ \E n \in -MaxCap..0 : NewHistoryManager(n)
  /\ appended = <<>>
  /\ nOps = 0

AddLong == AddOf(DefaultMaxMessages + MaxOver, CapMsgs)

CapNext == AddLong
SpecCap == CapInit /\ [][CapNext]_vars

(* ------- the window under a writer and a reader running concurrently --- *)
\* One goroutine calls Add, Set and Clear, another calls GetAll, Count and
\* GetStats; every method is split at its lock, its assignments to h.messages
\* and its deferred unlock.
SetArgs == SeqsUpTo(CapMsgs, 2)
ReadOps == {"GetAll", "Count", "GetStats"}

\* What a read of the window msgs returns.
Obs(op, msgs) ==
  CASE op = "GetAll" -> GetAll(msgs)
    [] op = "Count" -> Count(msgs)
    [] op = "GetStats" -> Stats(msgs)

\* h.mu.Lock() can proceed
LockFree(m) == ~m.writer /\ m.readers = 0

\* Mutant: the read lock does not wait for the writer.
RLockFree_IgnoresWriter(m) == TRUE

\* h.mu.RLock() can proceed
RLockFree(m) == ~m.writer

ConcInit ==
  /\ MainAtRest
  /\ ApiAtRest
  /\ \E n \in 1..MaxCap : NewHistoryManager(n)
  /\ appended = <<>>
  /\ nOps = 0

\* h.mu.Lock() of a mutation that is to turn the window into result
WriterLock(next, arg, result) ==
  /\ wpc = "idle"
  /\ nOps < MaxWrites
  /\ LockFree(hmu)
  /\ hmu' = [hmu EXCEPT !.writer = TRUE]
  /\ wpc' = next
  /\ warg' = arg
  /\ pre' = messages
  /\ post' = result
  /\ nOps' = nOps + 1
  /\ UNCHANGED <<mainVars, parseVars, termVars, tableVars, cmdVars,
                 optMax, maxMessages, messages, appended, heap,
                 hslice, rpc, got, snap, nReads>>

\* Add: h.mu.Lock()
AddLock ==
  \E msg \in CapMsgs :
    WriterLock("append", <<msg>>, HistAdd(messages, maxMessages, msg))

\* Add: h.messages = append(h.messages, msg)
AddAppend ==
  /\ wpc = "append"
  /\ LET r == SliceAppend(heap, hslice, warg[1])
     IN /\ heap' = r.heap
        /\ hslice' = r.slice
        /\ messages' = View(r.heap, r.slice)
  /\ wpc' = "enforce"
  /\ UNCHANGED <<mainVars, parseVars, termVars, tableVars, cmdVars,
                 optMax, maxMessages, appended, nOps, hmu, warg,
                 pre, post, rpc, got, snap, nReads>>

\* Add: h.enforceLimits()
AddEnforce ==
  /\ wpc = "enforce"
  /\ hslice' = SliceEnforce(hslice, maxMessages)
  /\ messages' = View(heap, hslice')
  /\ wpc' = "unlock"
  /\ UNCHANGED <<mainVars, parseVars, termVars, tableVars, cmdVars,
                 optMax, maxMessages, appended, nOps, heap, hmu,
                 warg, pre, post, rpc, got, snap, nReads>>

\* Set: h.mu.Lock(); if len(msgs) == 0
SetLock ==
  \E msgs \in SetArgs :
    WriterLock(IF Len(msgs) = 0 THEN "empty" ELSE "make", msgs, HistSet(msgs))

\* Set: h.messages = make([]*ai.Message, len(msgs))
SetMake ==
  /\ wpc = "make"
  /\ LET r == Make(heap, Len(warg))
     IN /\ heap' = r.heap
        /\ hslice' = r.slice
        /\ messages' = View(r.heap, r.slice)
  /\ wpc' = "copy"
  /\ UNCHANGED <<mainVars, parseVars, termVars, tableVars, cmdVars,
                 optMax, maxMessages, appended, nOps, hmu, warg,
                 pre, post, rpc, got, snap, nReads>>

\* Set: copy(h.messages, msgs)
SetCopy ==
  /\ wpc = "copy"
  /\ heap' = CopyInto(heap, hslice, warg)
  /\ messages' = View(heap', hslice)
  /\ wpc' = "unlock"
  /\ UNCHANGED <<mainVars, parseVars, termVars, tableVars, cmdVars,
                 optMax, maxMessages, appended, nOps, hslice, hmu,
                 warg, pre, post, rpc, got, snap, nReads>>

\* Clear: h.mu.Lock()
ClearLock == WriterLock("empty", <<>>, HistClear)

\* Clear, and Set of no messages: h.messages = []*ai.Message{}
AssignEmpty ==
  /\ wpc = "empty"
  /\ hslice' = EmptySlice
  /\ messages' = <<>>
  /\ wpc' = "unlock"
  /\ UNCHANGED <<mainVars, parseVars, termVars, tableVars, cmdVars,
                 optMax, maxMessages, appended, nOps, heap, hmu,
                 warg, pre, post, rpc, got, snap, nReads>>

\* defer h.mu.Unlock()
WriterUnlock ==
  /\ wpc = "unlock"
  /\ hmu' = [hmu EXCEPT !.writer = FALSE]
  /\ wpc' = "idle"
  /\ warg' = <<>>
  /\ pre' = messages
  /\ post' = messages
  /\ UNCHANGED <<mainVars, parseVars, termVars, tableVars, cmdVars,
                 optMax, maxMessages, messages, appended, nOps,
                 heap, hslice, rpc, got, snap, nReads>>

\* GetAll, Count, GetStats: h.mu.RLock()
ReadLock ==
  /\ rpc = "idle"
  /\ nReads < MaxReads
  /\ RLockFree(hmu)
  /\ hmu' = [hmu EXCEPT !.readers = hmu.readers + 1]
  /\ \E op \in ReadOps : rpc' = op
  /\ nReads' = nReads + 1
  /\ UNCHANGED <<mainVars, parseVars, termVars, tableVars, cmdVars,
                 histVars, heap, hslice, wpc, warg, pre, post, got,
                 snap>>

\* GetAll: result := make([]*ai.Message, len(h.messages)); copy(result, h.messages)
ReadGetAll ==
  /\ rpc = "GetAll"
  /\ LET r == Make(heap, hslice.len)
     IN /\ heap' = CopyInto(r.heap, r.slice, View(heap, hslice))
        /\ snap' = r.slice
        /\ got' = [op |-> "GetAll", val |-> View(heap', r.slice)]
  /\ rpc' = "runlock"
  /\ UNCHANGED <<mainVars, parseVars, termVars, tableVars, cmdVars,
                 histVars, hslice, hmu, wpc, warg, pre, post,
                 nReads>>

\* Count: return len(h.messages)
ReadCount ==
  /\ rpc = "Count"
  /\ got' = [op |-> "Count", val |-> hslice.len]
  /\ rpc' = "runlock"
  /\ UNCHANGED <<mainVars, parseVars, termVars, tableVars, cmdVars,
                 histVars, heap, hslice, hmu, wpc, warg, pre, post,
                 snap, nReads>>

\* GetStats: the loop over h.messages
ReadStats ==
  /\ rpc = "GetStats"
  /\ got' = [op |-> "GetStats", val |-> Stats(View(heap, hslice))]
  /\ rpc' = "runlock"
  /\ UNCHANGED <<mainVars, parseVars, termVars, tableVars, cmdVars,
                 histVars, heap, hslice, hmu, wpc, warg, pre, post,
                 snap, nReads>>

\* defer h.mu.RUnlock()
ReadUnlock ==
  /\ rpc = "runlock"
  /\ hmu' = [hmu EXCEPT !.readers = hmu.readers - 1]
  /\ rpc' = "idle"
  /\ UNCHANGED <<mainVars, parseVars, termVars, tableVars, cmdVars,
                 histVars, heap, hslice, wpc, warg, pre, post, got,
                 snap, nReads>>

ConcNext ==
  \/ AddLock \/ AddAppend \/ AddEnforce
  \/ SetLock \/ SetMake \/ SetCopy
  \/ ClearLock \/ AssignEmpty
  \/ WriterUnlock
  \/ ReadLock \/ ReadGetAll \/ ReadCount \/ ReadStats \/ ReadUnlock

SpecConc == ConcInit /\ [][ConcNext]_vars

(* ------------------- flows.ChatFlow.generate (result) ----------------- *)
ZeroResponse == [Output |-> <<>>, DurationMs |-> 0, TTFCMs |-> 0, Chunks |-> 0,
                 Error |-> "nil", ImagesLoaded |-> 0]

\* Mutant: a failed generation returns a fresh response carrying only the error.
GenerateResult_ZeroedOnError(loaded, err, out, dur, chunks, first) ==
  IF err # "nil" THEN [Output |-> <<>>, DurationMs |-> 0, TTFCMs |-> 0,
                       Chunks |-> 0, Error |-> err, ImagesLoaded |-> 0]
  ELSE [Output |-> out, DurationMs |-> dur,
        TTFCMs |-> IF first # ZeroTime THEN first ELSE 0,
        Chunks |-> chunks, Error |-> err, ImagesLoaded |-> loaded]

\* Mutant: TTFCMs is computed from firstChunkTime whether or not it was set.
GenerateResult_NoZeroTest(loaded, err, out, dur, chunks, first) ==
  [Output |-> IF err = "nil" THEN out ELSE <<>>,
   DurationMs |-> dur,
   TTFCMs |-> first,
   Chunks |-> chunks,
   Error |-> err,
   ImagesLoaded |-> loaded]

\* generate() after GenerateText returned: the metrics are filled in before the
\* error is tested; Output is set on success only; ImagesLoaded was set when
\* the images were loaded.
GenerateResult(loaded, err, out, dur, chunks, first) ==
  [Output |-> IF err = "nil" THEN out ELSE <<>>,
   DurationMs |-> dur,
   TTFCMs |-> IF first # ZeroTime THEN first ELSE 0,
   Chunks |-> chunks,
   Error |-> err,
   ImagesLoaded |-> loaded]

(* ----------------------------- main(): start -------------------------- *)
\* What chat_history can hold when the program starts: what an earlier run
\* saved on exit.
StoredHistories ==
  {<<>>, <<UserMessage(<<"o">>), ModelMessage(<<"k">>)>>}

Init ==
  /\ pc = "start" /\ lpc = "none" /\ mu = "free" /\ genCancel = Nil
  /\ canceled = {} /\ turn = 0 /\ sigChan = <<>> /\ lisSig = Nil /\ nSig = 0
  /\ storeOk \in BOOLEAN /\ dbTurns = <<>> /\ dbHistory \in StoredHistories
  /\ lastResponse = <<>>
  /\ NewHistoryManager(MainMaxMessages)
  /\ userInput = <<>> /\ imagePaths = <<>> /\ fs = NoFiles
  /\ reqHistory = <<>> /\ sent = <<>> /\ arrivals = <<>>
  /\ elapsed = 0 /\ chunkCount = 0
  /\ firstChunkTime = ZeroTime /\ output = <<>> /\ sunk = <<>>
  /\ resp = ZeroResponse
  /\ outcome = "none" /\ endCause = "none"
  /\ nCancels = 0 /\ cancelAt = NoCancel
  /\ appended = <<>> /\ nOps = 0
  /\ ApiAtRest

Alive == pc \notin {"start", "panic", "done"}

\* main() from the history load to the first Readline: Set(LoadHistory()) when
\* the store opened, the listener goroutine started, store.CreateSession called
\* on the store whether or not it is nil.
Startup ==
  /\ pc = "start"
  /\ messages' = IF storeOk THEN HistSet(dbHistory) ELSE messages
  /\ pc' = IF storeOk THEN "read" ELSE "panic"
  /\ lpc' = IF storeOk THEN "recv" ELSE "none"
  /\ UNCHANGED <<apiVars, muVars, canceled, turn, sigVars, storeVars, lastResponse,
                 optMax, maxMessages, appended, nOps, genVars, logVars>>

(* ------------------------- the interrupt source ----------------------- *)
\* signal.Notify delivers without blocking: a signal that finds the channel
\* full is dropped.  The signal is tagged with the turn armed when it is raised.
Interrupt ==
  /\ Alive
  /\ nSig < MaxSignals
  /\ nSig' = nSig + 1
  /\ sigChan' = IF Len(sigChan) < SigChanCap THEN Append(sigChan, genCancel)
                ELSE sigChan
  /\ UNCHANGED <<apiVars, pc, lpc, muVars, canceled, turn, lisSig, storeVars,
                 lastResponse, histVars, genVars, logVars>>

(* ----------------------- the listener goroutine ----------------------- *)
\* for range sigChan
ListenerRecv ==
  /\ Alive /\ lpc = "recv"
  /\ sigChan # <<>>
  /\ lisSig' = Head(sigChan)
  /\ sigChan' = Tail(sigChan)
  /\ lpc' = "lock"
  /\ UNCHANGED <<apiVars, pc, muVars, canceled, turn, nSig, storeVars, lastResponse,
                 histVars, genVars, logVars>>

\* mu.Lock()
ListenerLock ==
  /\ Alive /\ lpc = "lock"
  /\ mu = "free"
  /\ mu' = "listener"
  /\ lpc' = "crit"
  /\ UNCHANGED <<apiVars, pc, genCancel, canceled, turn, sigVars, storeVars,
                 lastResponse, histVars, genVars, logVars>>

\* Mutant: the handler does not test the register.
HandlerFires_Always(gc) == TRUE

\* if genCancel != nil
HandlerFires(gc) == gc # Nil

\* Mutant: the handler consumes the handle after firing it.
ListenerHandle_ClearsHandle ==
  /\ Alive /\ lpc = "crit"
  /\ IF HandlerFires(genCancel)
     THEN /\ canceled' = canceled \cup {genCancel}
          /\ nCancels' = nCancels + 1
          /\ cancelAt' = IF pc = "run" /\ ~cancelAt.set
                         THEN [set |-> TRUE, chunks |-> Len(sunk),
                               elapsed |-> elapsed, first |-> firstChunkTime]
                         ELSE cancelAt
     ELSE UNCHANGED <<canceled, nCancels, cancelAt>>
  /\ genCancel' = Nil
  /\ mu' = "free"
  /\ lisSig' = Nil
  /\ lpc' = "recv"
  /\ UNCHANGED <<apiVars, pc, turn, sigChan, nSig, storeVars, lastResponse, histVars,
                 genVars, outcome, endCause>>

\* if genCancel != nil { genCancel(); Println("Generation canceled by user") }
\* mu.Unlock()
ListenerHandle ==
  /\ Alive /\ lpc = "crit"
  /\ IF HandlerFires(genCancel)
     THEN /\ canceled' = canceled \cup {genCancel}
          /\ nCancels' = nCancels + 1
          /\ cancelAt' = IF pc = "run" /\ ~cancelAt.set
                         THEN [set |-> TRUE, chunks |-> Len(sunk),
                               elapsed |-> elapsed, first |-> firstChunkTime]
                         ELSE cancelAt
     ELSE UNCHANGED <<canceled, nCancels, cancelAt>>
  /\ genCancel' = genCancel
  /\ mu' = "free"
  /\ lisSig' = Nil
  /\ lpc' = "recv"
  /\ UNCHANGED <<apiVars, pc, turn, sigChan, nSig, storeVars, lastResponse, histVars,
                 genVars, outcome, endCause>>

(* --------------------- main(): the foreground loop -------------------- *)
\* Readline returned io.EOF or an error, or /quit was run: leave the loop,
\* store.SaveHistory(historyMgr.GetAll()) when store != nil (it may fail and
\* leave the table as it was), and the process ends with its goroutines.
MainReadExit ==
  /\ pc = "read"
  /\ \E saved \in {storeOk, FALSE} :
       dbHistory' = IF saved THEN GetAll(messages) ELSE dbHistory
  /\ pc' = "done"
  /\ lpc' = "none"
  /\ sigChan' = <<>>
  /\ lisSig' = Nil
  /\ outcome' = "none"
  /\ UNCHANGED <<apiVars, muVars, canceled, turn, nSig, storeOk, dbTurns, lastResponse,
                 histVars, genVars, endCause, nCancels, cancelAt>>

\* readline.ErrInterrupt, an empty line, an unknown command or a command that
\* touches none of this state: continue.
MainReadContinue ==
  /\ pc = "read"
  /\ UNCHANGED vars

\* /reset: ResetCommand.Execute calls History.Clear()
MainReadReset ==
  /\ pc = "read"
  /\ messages' = HistClear
  /\ UNCHANGED <<apiVars, pc, lpc, muVars, canceled, turn, sigVars, storeVars,
                 lastResponse, optMax, maxMessages, appended, nOps, genVars, logVars>>

\* A chat line: imagePaths := media.ExtractImagePaths(userInput), and on to the
\* arming of its generation.
ReadChat(lines) ==
  /\ pc = "read"
  /\ turn < MaxTurns
  /\ \E l \in lines :
       /\ TrimSpace(l) # <<>>
       /\ Head(TrimSpace(l)) # "/"
       /\ userInput' = TrimSpace(l)
       /\ imagePaths' = ExtractImagePaths(TrimSpace(l))
  /\ outcome' = "none"
  /\ pc' = "armLock"
  /\ UNCHANGED <<apiVars, lpc, muVars, canceled, turn, sigVars, storeVars,
                 lastResponse, histVars, fs, reqHistory, sent, arrivals,
                 elapsed, chunkCount, firstChunkTime, output, sunk, resp,
                 endCause, nCancels, cancelAt>>

MainReadChat == ReadChat(Inputs)

\* mu.Lock()
MainArmLock ==
  /\ pc = "armLock"
  /\ mu = "free"
  /\ mu' = "main"
  /\ pc' = "arm"
  /\ UNCHANGED <<apiVars, lpc, genCancel, canceled, turn, sigVars, storeVars,
                 lastResponse, histVars, genVars, logVars>>

\* genCtx, cancel := context.WithCancel(ctx); genCancel = cancel; mu.Unlock()
MainArm ==
  /\ pc = "arm"
  /\ turn' = turn + 1
  /\ genCancel' = turn + 1
  /\ mu' = "free"
  /\ pc' = "call"
  /\ UNCHANGED <<apiVars, lpc, canceled, sigVars, storeVars, lastResponse, histVars,
                 genVars, logVars>>

\* chatFlow.RunWithStreaming(genCtx, ChatRequest{History: historyMgr.GetAll()})
\* up to the call of genkit.GenerateText: the images are loaded, the message
\* list is built and the counters are zero
MainCall ==
  /\ pc = "call"
  /\ reqHistory' = GetAll(messages)
  /\ LET images == LoadImages(fs, imagePaths)
     IN /\ sent' = BuildMessages(reqHistory', CurrentMessage(userInput, images))
        /\ resp' = [ZeroResponse EXCEPT !.ImagesLoaded = Len(images)]
  /\ arrivals' = <<>>
  /\ elapsed' = 0
  /\ chunkCount' = 0
  /\ firstChunkTime' = ZeroTime
  /\ output' = <<>>
  /\ sunk' = <<>>
  /\ pc' = "run"
  /\ UNCHANGED <<apiVars, lpc, muVars, canceled, turn, sigVars, storeVars,
                 lastResponse, histVars, userInput, imagePaths, fs, logVars>>

\* genCtx.Err() == context.Canceled
CtxCanceled(t) == t \in canceled

\* The clock advances while the generation runs, up to limit milliseconds.
TickTo(limit) ==
  /\ pc = "run"
  /\ elapsed < limit
  /\ elapsed' = elapsed + 1
  /\ UNCHANGED <<apiVars, pc, lpc, muVars, canceled, turn, sigVars, storeVars,
                 lastResponse, histVars, userInput, imagePaths, fs, reqHistory,
                 sent, arrivals, chunkCount, firstChunkTime, output, sunk,
                 resp, logVars>>

Tick == TickTo(MaxElapsed)

\* Mutant: the time of the chunk is stored at every chunk.
FirstChunkTime_EveryChunk(count, first, now) == now

\* The streaming handler: if chunkCount == 0 { firstChunkTime = time.Now() }
FirstChunkTime(count, first, now) == IF count = 0 THEN now ELSE first

\* The backend reads one chunk (a blocking read that fails once the context is
\* cancelled) and the streaming handler of generate() runs: it latches
\* firstChunkTime, counts the chunk and forwards it to main's streamCallback.
BackendChunk ==
  /\ pc = "run"
  /\ ~CtxCanceled(turn)
  /\ chunkCount < MaxChunks
  /\ output' = output \o ChunkAt(chunkCount + 1)
  /\ sunk' = Append(sunk, ChunkAt(chunkCount + 1))
  /\ firstChunkTime' = FirstChunkTime(chunkCount, firstChunkTime, elapsed)
  /\ chunkCount' = chunkCount + 1
  /\ arrivals' = Append(arrivals, elapsed)
  /\ UNCHANGED <<apiVars, pc, lpc, muVars, canceled, turn, sigVars, storeVars,
                 lastResponse, histVars, userInput, imagePaths, fs, reqHistory,
                 sent, elapsed, resp, logVars>>

\* Mutant: generate() records the exchange in the history before it returns.
GenerateReturn_RecordsTurn(err, cause) ==
  /\ resp' = GenerateResult(resp.ImagesLoaded, err, output, elapsed,
                            chunkCount, firstChunkTime)
  /\ messages' = HistAdd(messages, maxMessages, ModelMessage(output))
  /\ endCause' = cause
  /\ arrivals' = <<>>
  /\ elapsed' = 0
  /\ chunkCount' = 0
  /\ firstChunkTime' = ZeroTime
  /\ output' = <<>>
  /\ pc' = "inspect"
  /\ UNCHANGED <<apiVars, lpc, muVars, canceled, turn, sigVars, storeVars,
                 lastResponse, optMax, maxMessages, appended, nOps, userInput,
                 imagePaths, fs, reqHistory, sent, sunk, outcome, nCancels,
                 cancelAt>>

\* GenerateText returns (err as given), generate() builds its response and
\* returns: its locals are gone.
GenerateReturn(err, cause) ==
  /\ resp' = GenerateResult(resp.ImagesLoaded, err, output, elapsed,
                            chunkCount, firstChunkTime)
  /\ endCause' = cause
  /\ arrivals' = <<>>
  /\ elapsed' = 0
  /\ chunkCount' = 0
  /\ firstChunkTime' = ZeroTime
  /\ output' = <<>>
  /\ pc' = "inspect"
  /\ UNCHANGED <<apiVars, lpc, muVars, canceled, turn, sigVars, storeVars,
                 lastResponse, histVars, userInput, imagePaths, fs,
                 reqHistory, sent, sunk, outcome, nCancels, cancelAt>>

\* The backend finished the response.
BackendComplete ==
  /\ pc = "run"
  /\ ~CtxCanceled(turn)
  /\ GenerateReturn("nil", "complete")

\* The backend failed for a reason other than cancellation.
BackendFail ==
  /\ pc = "run"
  /\ ~CtxCanceled(turn)
  /\ GenerateReturn("backend", "fail")

\* Mutant: the backend never observes the cancelled context.
BackendCancelled_NeverReturns ==
  /\ pc = "run"
  /\ CtxCanceled(turn)
  /\ UNCHANGED vars

\* The backend observed the cancelled context and unwound.
BackendCancelled ==
  /\ pc = "run"
  /\ CtxCanceled(turn)
  /\ GenerateReturn("canceled", "ctx")

\* db.ConversationTurn saved for a successful turn
TurnRecord(line, r) ==
  [UserInput |-> line, ModelOutput |-> r.Output, Chunks |-> r.Chunks]

\* Mutant: an error path continues the loop without calling cleanup().
AfterError_SkipsCleanup == "read"

\* Where the error paths of main go after reporting: cleanup(); continue
AfterError == "cleanup"

\* Mutant: the user message of a failed turn is kept in the history.
MainInspect_RecordsFailures ==
  /\ pc = "inspect"
  /\ IF resp.Error # "nil"
     THEN /\ outcome' = IF CtxCanceled(turn) THEN "cancelled" ELSE "error"
          /\ pc' = AfterError
          /\ messages' = HistAdd(messages, maxMessages, UserMessage(userInput))
          /\ UNCHANGED <<dbTurns, lastResponse>>
     ELSE /\ outcome' = "success"
          /\ dbTurns' = IF storeOk THEN Append(dbTurns, TurnRecord(userInput, resp))
                        ELSE dbTurns
          /\ messages' = HistAdd(HistAdd(messages, maxMessages, UserMessage(userInput)),
                                 maxMessages, ModelMessage(resp.Output))
          /\ lastResponse' = resp.Output
          /\ pc' = "cleanup"
  /\ userInput' = <<>> /\ imagePaths' = <<>> /\ reqHistory' = <<>>
  /\ sent' = <<>> /\ sunk' = <<>>
  /\ resp' = ZeroResponse
  /\ cancelAt' = [NoCancel EXCEPT !.set = cancelAt.set]
  /\ UNCHANGED <<apiVars, lpc, muVars, canceled, turn, sigVars, storeOk, dbHistory,
                 optMax, maxMessages, appended, nOps, fs, arrivals, elapsed,
                 chunkCount, firstChunkTime, output, endCause, nCancels>>

\* main() from the return of RunWithStreaming to the call of cleanup():
\* err != nil is told apart by genCtx.Err(); a success is saved (store != nil),
\* appended to the history and kept as lastResponse.  The locals of the
\* iteration are not read again.
MainInspect ==
  /\ pc = "inspect"
  /\ IF resp.Error # "nil"
     THEN /\ outcome' = IF CtxCanceled(turn) THEN "cancelled" ELSE "error"
          /\ pc' = AfterError
          /\ UNCHANGED <<dbTurns, messages, lastResponse>>
     ELSE /\ outcome' = "success"
          /\ dbTurns' = IF storeOk THEN Append(dbTurns, TurnRecord(userInput, resp))
                        ELSE dbTurns
          /\ messages' = HistAdd(HistAdd(messages, maxMessages, UserMessage(userInput)),
                                 maxMessages, ModelMessage(resp.Output))
          /\ lastResponse' = resp.Output
          /\ pc' = "cleanup"
  /\ userInput' = <<>> /\ imagePaths' = <<>> /\ reqHistory' = <<>>
  /\ sent' = <<>> /\ sunk' = <<>>
  /\ resp' = ZeroResponse
  /\ cancelAt' = [NoCancel EXCEPT !.set = cancelAt.set]
  /\ UNCHANGED <<apiVars, lpc, muVars, canceled, turn, sigVars, storeOk, dbHistory,
                 optMax, maxMessages, appended, nOps, fs, arrivals, elapsed,
                 chunkCount, firstChunkTime, output, endCause, nCancels>>

\* cleanup(): cancel()
MainCleanupCancel ==
  /\ pc = "cleanup"
  /\ canceled' = canceled \cup {turn}
  /\ pc' = "cleanupLock"
  /\ UNCHANGED <<apiVars, lpc, muVars, turn, sigVars, storeVars, lastResponse, histVars,
                 genVars, logVars>>

\* cleanup(): mu.Lock()
MainCleanupLock ==
  /\ pc = "cleanupLock"
  /\ mu = "free"
  /\ mu' = "main"
  /\ pc' = "cleanupClear"
  /\ UNCHANGED <<apiVars, lpc, genCancel, canceled, turn, sigVars, storeVars,
                 lastResponse, histVars, genVars, logVars>>

\* Mutant: cleanup() releases the mutex without clearing the register.
MainCleanupClear_KeepsHandle ==
  /\ pc = "cleanupClear"
  /\ genCancel' = genCancel
  /\ mu' = "free"
  /\ endCause' = "none" /\ nCancels' = 0 /\ cancelAt' = NoCancel
  /\ pc' = "read"
  /\ UNCHANGED <<apiVars, lpc, canceled, turn, sigVars, storeVars, lastResponse,
                 histVars, genVars, outcome>>

\* cleanup(): genCancel = nil; mu.Unlock(); the iteration ends and the loop is
\* back at Readline
MainCleanupClear ==
  /\ pc = "cleanupClear"
  /\ genCancel' = Nil
  /\ mu' = "free"
  /\ endCause' = "none" /\ nCancels' = 0 /\ cancelAt' = NoCancel
  /\ pc' = "read"
  /\ UNCHANGED <<apiVars, lpc, canceled, turn, sigVars, storeVars, lastResponse,
                 histVars, genVars, outcome>>

Next ==
  \/ Startup
  \/ Interrupt
  \/ ListenerRecv \/ ListenerLock \/ ListenerHandle
  \/ MainReadExit \/ MainReadContinue \/ MainReadReset \/ MainReadChat
  \/ MainArmLock \/ MainArm \/ MainCall
  \/ Tick \/ BackendChunk \/ BackendComplete \/ BackendFail \/ BackendCancelled
  \/ MainInspect
  \/ MainCleanupCancel \/ MainCleanupLock \/ MainCleanupClear

Spec == Init /\ [][Next]_vars

\* Scheduling: the main goroutine and the listener goroutine each take their
\* next step when it stays possible, sync.Mutex hands the lock to a waiter
\* that keeps asking (starvation mode), a call whose context is cancelled
\* returns, and a call that is left alone ends with a response or an error.
\* Nothing forces an interrupt, a line of input or a chunk.
Fairness ==
  /\ WF_vars(ListenerLock) /\ WF_vars(ListenerHandle)
  /\ WF_vars(MainArmLock) /\ WF_vars(MainArm) /\ WF_vars(MainCall)
  /\ WF_vars(BackendComplete \/ BackendFail)
  /\ WF_vars(BackendCancelled)
  /\ WF_vars(MainInspect)
  /\ WF_vars(MainCleanupCancel)
  /\ SF_vars(MainCleanupLock)
  /\ WF_vars(MainCleanupClear)

SpecLive == Spec /\ Fairness

(* ------------------ one call of RunWithStreaming on its own ----------- *)
\* The request is any a caller can build: image paths that are local or
\* remote, supported or not, readable or not, and the history is what Startup
\* loaded; the call runs to its return without an interrupt.  SpecGen follows
\* the clock and the chunks of a call, SpecImg the images of its request.
ImgPaths ==
  {<<".", "/", "d", ".", "png">>, <<"x", ".", "tiff">>,
   <<"http://", "h", "/", "c">>, <<"~/", "e", ".", "JPG">>}

Files ==
  {[path |-> <<".", "/", "d", ".", "png">>, ctype |-> ""],
   [path |-> <<"x", ".", "tiff">>, ctype |-> ""],
   [path |-> <<"http://", "h", "/", "c">>, ctype |-> ""],
   [path |-> <<"http://", "h", "/", "c">>, ctype |-> "image/png"],
   [path |-> <<"/home/", "e", ".", "JPG">>, ctype |-> ""]}

FileSystems ==
  {[home |-> h, files |-> F] :
     h \in BOOLEAN,
     F \in {G \in SUBSET Files : \A f, g \in G : f.path = g.path => f = g}}

\* main at its first call of RunWithStreaming, with a request whose image
\* paths are drawn from paths and an environment drawn from envs
CallInit(paths, envs) ==
  /\ pc = "call" /\ lpc = "recv" /\ mu = "free" /\ genCancel = 1
  /\ canceled = {} /\ turn = 1 /\ sigChan = <<>> /\ lisSig = Nil /\ nSig = 0
  /\ storeOk = TRUE /\ dbTurns = <<>> /\ dbHistory = <<>>
  /\ lastResponse = <<>>
  /\ optMax = MainMaxMessages
  /\ maxMessages = NormalizeMaxMessages(MainMaxMessages)
  /\ \E loaded \in StoredHistories : messages = HistSet(loaded)
  /\ \E line \in Inputs : userInput = line
  /\ imagePaths \in paths
  /\ fs \in envs
  /\ reqHistory = <<>> /\ sent = <<>> /\ arrivals = <<>>
  /\ elapsed = 0 /\ chunkCount = 0
  /\ firstChunkTime = ZeroTime /\ output = <<>> /\ sunk = <<>>
  /\ resp = ZeroResponse
  /\ outcome = "none" /\ endCause = "none"
  /\ nCancels = 0 /\ cancelAt = NoCancel
  /\ appended = <<>> /\ nOps = 0
  /\ ApiAtRest

GenInit ==
  CallInit({<<>>, <<<<".", "/", "d", ".", "png">>>>},
           {NoFiles,
            [home |-> TRUE,
             files |-> {[path |-> <<".", "/", "d", ".", "png">>, ctype |-> ""]}]})

GenTick == TickTo(MaxGenElapsed)

GenNext ==
  MainCall \/ GenTick \/ BackendChunk \/ BackendComplete \/ BackendFail

SpecGen == GenInit /\ [][GenNext]_vars

ImgInit == CallInit(SeqsUpTo(ImgPaths, MaxImages), FileSystems)

ImgNext == MainCall \/ BackendComplete \/ BackendFail

SpecImg == ImgInit /\ [][ImgNext]_vars

(* ------------------ the two mutexes of the foreground loop ------------ *)
\* The loop of Spec with HistoryManager.mu made visible.  main enters a
\* method of the history manager by taking h.mu, the existing step that holds
\* the history call runs with h.mu held, and main leaves by releasing it; the
\* section is never shorter than in the code.  The listener calls no method
\* of the history manager.
HistoryCallAt == {"call", "inspect"}

\* Mutant: the history is also read between mu.Lock() and mu.Unlock() of the
\* arming.
MainHistoryLock_WhileArming ==
  /\ pc \in HistoryCallAt \cup {"arm"}
  /\ LockFree(hmu)
  /\ hmu' = IF pc = "inspect" THEN [writer |-> TRUE, readers |-> 0]
            ELSE [writer |-> FALSE, readers |-> 1]
  /\ UNCHANGED <<mainVars, histVars, logVars, heap, hslice, wpc, warg, pre,
                 post, rpc, got, snap, nReads, parseVars, termVars, tableVars,
                 cmdVars>>

\* h.mu.RLock() of Count and GetAll before the call, h.mu.Lock() of Add after
\* it
MainHistoryLock ==
  /\ pc \in HistoryCallAt
  /\ LockFree(hmu)
  /\ hmu' = IF pc = "inspect" THEN [writer |-> TRUE, readers |-> 0]
            ELSE [writer |-> FALSE, readers |-> 1]
  /\ UNCHANGED <<mainVars, histVars, logVars, heap, hslice, wpc, warg, pre,
                 post, rpc, got, snap, nReads, parseVars, termVars, tableVars,
                 cmdVars>>

\* defer h.mu.RUnlock() / defer h.mu.Unlock()
MainHistoryUnlock ==
  /\ pc \notin HistoryCallAt
  /\ hmu # Unlocked
  /\ hmu' = Unlocked
  /\ UNCHANGED <<mainVars, histVars, logVars, heap, hslice, wpc, warg, pre,
                 post, rpc, got, snap, nReads, parseVars, termVars, tableVars,
                 cmdVars>>

\* The steps of main that hold a history call
MainInHistory ==
  /\ hmu # Unlocked
  /\ (MainCall \/ MainInspect)

\* The steps of main and of the backend outside the history manager
MainOutsideHistory ==
  /\ hmu = Unlocked
  /\ \/ Startup \/ MainReadExit \/ MainReadChat
     \/ MainArmLock \/ MainArm
     \/ BackendComplete \/ BackendFail \/ BackendCancelled
     \/ MainCleanupCancel \/ MainCleanupLock \/ MainCleanupClear

LocksNext ==
  \/ Interrupt \/ ListenerRecv \/ ListenerLock \/ ListenerHandle
  \/ MainHistoryLock \/ MainInHistory \/ MainHistoryUnlock
  \/ MainOutsideHistory

SpecLocks == Init /\ [][LocksNext]_vars

(* ------------------- the terminal during one generation -------------- *)
\* One call of RunWithStreaming with the listener beside it, at the grain of
\* the writes to os.Stdout.  A write is recorded with the goroutine that made
\* it and the holder of mu at that moment.
Write(by, text) == [by |-> by, text |-> text, mu |-> mu]

TermInit == CallInit({<<>>}, {NoFiles})

\* if genCancel != nil { genCancel(); fmt.Println() ... ; else mu.Unlock()
ListenerCancel ==
  /\ lpc = "crit"
  /\ IF HandlerFires(genCancel)
     THEN /\ canceled' = canceled \cup {genCancel}
          /\ term' = Append(term, Write("listener", "newline"))
          /\ lpc' = "announce"
          /\ UNCHANGED <<mu, lisSig>>
     ELSE /\ mu' = "free"
          /\ lisSig' = Nil
          /\ lpc' = "recv"
          /\ UNCHANGED <<canceled, term>>
  /\ UNCHANGED <<concVars, tableVars, cmdVars, parseVars, cbpc, firstChunk, pc, genCancel, turn,
                 sigChan, nSig, storeVars, lastResponse, histVars, genVars,
                 logVars>>

\* cfg.ErrorColor().Println("Generation canceled by user"); mu.Unlock()
ListenerAnnounce ==
  /\ lpc = "announce"
  /\ term' = Append(term, Write("listener", "canceled"))
  /\ mu' = "free"
  /\ lisSig' = Nil
  /\ lpc' = "recv"
  /\ UNCHANGED <<concVars, tableVars, cmdVars, parseVars, cbpc, firstChunk, pc, genCancel,
                 canceled, turn, sigChan, nSig, storeVars, lastResponse,
                 histVars, genVars, logVars>>

\* The backend reads one chunk and the streaming handler of generate() counts
\* it and calls main's streamCallback.
CallbackEnter ==
  /\ pc = "run"
  /\ cbpc = "idle"
  /\ ~CtxCanceled(turn)
  /\ chunkCount < MaxChunks
  /\ output' = output \o ChunkAt(chunkCount + 1)
  /\ firstChunkTime' = FirstChunkTime(chunkCount, firstChunkTime, elapsed)
  /\ chunkCount' = chunkCount + 1
  /\ arrivals' = Append(arrivals, elapsed)
  /\ cbpc' = "write"
  /\ UNCHANGED <<concVars, tableVars, cmdVars, parseVars, term, firstChunk, pc, lpc, muVars,
                 canceled, turn, sigVars, storeVars, lastResponse, histVars,
                 userInput, imagePaths, fs, reqHistory, sent, elapsed, sunk,
                 resp, logVars>>

\* streamCallback: if firstChunk { fmt.Println(); firstChunk = false };
\* cfg.OutputColor().Printf("%s", chunk.Text())
CallbackWrite ==
  /\ cbpc = "write"
  /\ term' = (IF firstChunk THEN Append(term, Write("main", "newline"))
              ELSE term) \o <<Write("main", "chunk")>>
  /\ firstChunk' = FALSE
  /\ sunk' = Append(sunk, ChunkAt(chunkCount))
  /\ cbpc' = "idle"
  /\ UNCHANGED <<concVars, tableVars, cmdVars, parseVars, pc, lpc, muVars, canceled, turn,
                 sigVars, storeVars, lastResponse, histVars, userInput,
                 imagePaths, fs, reqHistory, sent, arrivals, elapsed,
                 chunkCount, firstChunkTime, output, resp, logVars>>

\* GenerateText returns once the callback in progress has
TermReturn ==
  /\ cbpc = "idle"
  /\ (BackendComplete \/ BackendFail \/ BackendCancelled)

TermNext ==
  \/ MainCall \/ Interrupt \/ ListenerRecv \/ ListenerLock
  \/ ListenerCancel \/ ListenerAnnounce
  \/ CallbackEnter \/ CallbackWrite \/ TermReturn

SpecTerm == TermInit /\ [][TermNext]_vars

(* -------------------- the chat_history table over restarts ----------- *)
\* json.Marshal(m.Content): the parts of a message as a JSON array; a text
\* message has one text part
Marshal(msg) == <<"[", "{", "text", ":", msg.text, "}", "]">>

\* json.Unmarshal into []*ai.Part and ai.NewMessage(ai.Role(role), nil, data...)
Unmarshal(role, content) ==
  [role |-> role,
   text |-> IF Len(content) = 7 /\ content[3] = "text" THEN content[5]
            ELSE <<>>]

\* Mutant: SaveHistory inserts without wiping the table.
SaveHistory_KeepsRows(rows, last, msgs) ==
  rows \cup {[id |-> last + i, role |-> msgs[i].role,
               content |-> Marshal(msgs[i])] : i \in 1..Len(msgs)}

\* Store.SaveHistory when its transaction commits: DELETE FROM chat_history,
\* then one INSERT per message, each taking the next id of the sequence
SaveHistory(rows, last, msgs) ==
  {[id |-> last + i, role |-> msgs[i].role, content |-> Marshal(msgs[i])] :
     i \in 1..Len(msgs)}

\* Store.LoadHistory when its query succeeds: SELECT ... ORDER BY id ASC
RECURSIVE LoadHistory(_)
LoadHistory(rows) ==
  IF rows = {} THEN <<>>
  ELSE LET first == CHOOSE r \in rows : \A q \in rows : r.id <= q.id
       IN <<Unmarshal(first.role, first.content)>>
            \o LoadHistory(rows \ {first})

\* The tables a first run can find: any rows an earlier run left
OldRows ==
  {[id |-> i, role |-> r, content |-> Marshal(UserMessage(<<"z">>))] :
     i \in 1..2, r \in {"user", "model"}}

StoreInit ==
  /\ MainAtRest
  /\ NewHistoryManager(MainMaxMessages)
  /\ appended = <<>> /\ nOps = 0
  /\ heap = <<>> /\ hslice = EmptySlice /\ hmu = Unlocked
  /\ wpc = "idle" /\ warg = <<>> /\ pre = <<>> /\ post = <<>>
  /\ rpc = "idle" /\ got = NoRead /\ snap = EmptySlice /\ nReads = 0
  /\ rawLine = <<>> /\ parsed = <<>>
  /\ term = <<>> /\ cbpc = "idle" /\ firstChunk = TRUE
  /\ chatHistory \in {t \in SUBSET OldRows : \A q, r \in t : q.id = r.id => q = r}
  /\ lastId = 2
  /\ lastSaved = <<>> /\ dbLoad = <<>>
  /\ run = [at |-> "down", n |-> 0]
  /\ CmdAtRest

\* main at startup: NewHistoryManager, then msgs, err := store.LoadHistory();
\* historyMgr.Set(msgs) when err == nil
StoreStart ==
  /\ run.at = "down"
  /\ run.n < MaxRuns
  /\ \E ok \in BOOLEAN :
       /\ dbLoad' = [ok |-> ok,
                     msgs |-> IF ok THEN LoadHistory(chatHistory) ELSE <<>>]
       /\ messages' = IF ok THEN HistSet(dbLoad'.msgs) ELSE <<>>
  /\ run' = [at |-> "started", n |-> run.n + 1]
  /\ UNCHANGED <<mainVars, concVars, cmdVars, parseVars, termVars, chatHistory,
                 lastId, lastSaved, optMax, maxMessages, appended, nOps>>

\* A successful turn: AddUserMessage, AddAssistantMessage
StoreTurn ==
  /\ run.at \in {"started", "up"}
  /\ Len(appended) < 2 * MaxStoreTurns
  /\ \E u \in {<<"u">>, <<"v">>} :
       /\ messages' = HistAdd(HistAdd(messages, maxMessages, UserMessage(u)),
                              maxMessages, ModelMessage(<<"m">>))
       /\ appended' = appended \o <<UserMessage(u), ModelMessage(<<"m">>)>>
  /\ run' = [run EXCEPT !.at = "up"]
  /\ UNCHANGED <<mainVars, concVars, cmdVars, parseVars, termVars, chatHistory,
                 lastId, lastSaved, dbLoad, optMax, maxMessages, nOps>>

\* main at exit: store.SaveHistory(shutdownCtx, historyMgr.GetAll()); a
\* failure rolls the transaction back
StoreExit ==
  /\ run.at \in {"started", "up"}
  /\ \E ok \in BOOLEAN :
       IF ok
       THEN /\ chatHistory' = SaveHistory(chatHistory, lastId, GetAll(messages))
            /\ lastId' = lastId + Len(messages)
            /\ lastSaved' = <<GetAll(messages)>>
       ELSE UNCHANGED <<chatHistory, lastId, lastSaved>>
  /\ messages' = <<>>
  /\ run' = [run EXCEPT !.at = "down"]
  /\ UNCHANGED <<mainVars, concVars, cmdVars, parseVars, termVars, dbLoad, optMax,
                 maxMessages, appended, nOps>>

StoreNext == StoreStart \/ StoreTurn \/ StoreExit

SpecStore == StoreInit /\ [][StoreNext]_vars

(* --------------------- the /model and /reset commands ----------------- *)
ModelNames ==
  {<<"ollama/", "a">>, <<"ollama/", "a", "b">>, <<"ollama/", "c">>}

Digits == <<"0", "1", "2", "3", "4", "5", "6", "7", "8", "9">>

IsDigit(c) == \E d \in 1..10 : Digits[d] = c

RECURSIVE DigitsValue(_)
DigitsValue(str) ==
  IF str = <<>> THEN 0
  ELSE 10 * DigitsValue(SubSeq(str, 1, Len(str) - 1))
         + (CHOOSE d \in 0..9 : Digits[d + 1] = str[Len(str)])

\* strconv.Atoi: an optional sign and at least one decimal digit
Atoi(str) ==
  LET signed == str # <<>> /\ Head(str) \in {"+", "-"}
      body == IF signed THEN Tail(str) ELSE str
      ok == body # <<>> /\ \A i \in 1..Len(body) : IsDigit(body[i])
  IN [ok |-> ok,
      num |-> IF ~ok THEN 0
              ELSE IF signed /\ Head(str) = "-" THEN 0 - DigitsValue(body)
              ELSE DigitsValue(body)]

\* strings.Contains
Contains(str, sub) ==
  \E i \in 1..(Len(str) + 1) :
    i + Len(sub) - 1 <= Len(str) /\ SubSeq(str, i, i + Len(sub) - 1) = sub

\* ModelCommand.parseSelection: a number picks by position, any other text
\* picks the first model it equals (case folded) or is contained in
parseSelection(models, selection) ==
  IF Atoi(selection).ok
  THEN IF Atoi(selection).num >= 1 /\ Atoi(selection).num <= Len(models)
       THEN models[Atoi(selection).num] ELSE <<>>
  ELSE LET hits == {i \in 1..Len(models) :
                      \/ ToLower(models[i]) = ToLower(selection)
                      \/ Contains(ToLower(models[i]), ToLower(selection))}
       IN IF hits = {} THEN <<>>
          ELSE models[CHOOSE i \in hits : \A k \in hits : i <= k]

\* Mutant: the configured model is used as it is.
InitialModel_Unchecked(configured, models) == configured

\* main: currentModel := cfg.GetModel(); the first available model when that
\* is empty or not available
InitialModel(configured, models) ==
  IF configured = <<>> \/ \A i \in 1..Len(models) : models[i] # configured
  THEN models[1] ELSE configured

\* Mutant: the model is switched and the history kept.
switchModel_KeepsHistory(current, newModel, msgs) ==
  [model |-> newModel, messages |-> msgs]

\* ModelCommand.switchModel: nothing when newModel is the current model,
\* otherwise State.SetModel(newModel) and History.Clear()
switchModel(current, newModel, msgs) ==
  IF current = newModel THEN [model |-> current, messages |-> msgs]
  ELSE [model |-> newModel, messages |-> HistClear]

NoCmd == [name |-> "none", selection |-> <<>>]

\* The lines typed at the prompt of /model: empty, numbers in and out of
\* range, signed numbers, names and parts of names, and text that matches
\* nothing
Selections ==
  {<<>>, <<"0">>, <<"1">>, <<"2">>, <<"3">>, <<"4">>, <<"1", "0">>,
   <<"-", "1">>, <<"+", "1">>, <<"+">>, <<"1", "a">>,
   <<"a">>, <<"A">>, <<"b">>, <<"a", "b">>, <<"c">>, <<"x">>,
   <<"ollama/">>, <<"ollama/", "a">>, <<"OLLAMA/", "A">>}

\* main after startup: RegisterModels returned a non-empty list (main exits
\* otherwise), appstate.New(WithModel(currentModel)) succeeded, and the
\* history is what an earlier run left
CmdInit ==
  /\ MainAtRest
  /\ NewHistoryManager(MainMaxMessages)
  /\ appended = <<>> /\ nOps = 0
  /\ heap = <<>> /\ hslice = EmptySlice /\ hmu = Unlocked
  /\ wpc = "idle" /\ warg = <<>> /\ pre = <<>> /\ post = <<>>
  /\ rpc = "idle" /\ got = NoRead /\ snap = EmptySlice /\ nReads = 0
  /\ rawLine = <<>> /\ parsed = <<>>
  /\ term = <<>> /\ cbpc = "idle" /\ firstChunk = TRUE
  /\ TableAtRest
  /\ availableModels \in
       {l \in SeqsUpTo(ModelNames, MaxModels) :
          l # <<>> /\ \A i, j \in 1..Len(l) : l[i] = l[j] => i = j}
  /\ \E configured \in ModelNames \cup {<<>>} :
       model = InitialModel(configured, availableModels)
  /\ model # <<>>
  /\ cmd = NoCmd

\* /model with a line typed at its prompt (trimmed by ReadInputWithoutHistory)
ModelCommand ==
  /\ nOps < MaxCmds
  /\ \E selection \in Selections :
       /\ cmd' = [name |-> "model", selection |-> selection]
       /\ LET selectedModel == parseSelection(availableModels, selection)
          IN IF selection = <<>> \/ selectedModel = <<>>
             THEN UNCHANGED <<model, messages>>
             ELSE /\ model' = switchModel(model, selectedModel, messages).model
                  /\ messages' =
                       switchModel(model, selectedModel, messages).messages
  /\ nOps' = nOps + 1
  /\ UNCHANGED <<mainVars, concVars, parseVars, termVars, tableVars,
                 availableModels, optMax, maxMessages, appended>>

\* /reset
ResetCommand ==
  /\ nOps < MaxCmds
  /\ cmd' = [name |-> "reset", selection |-> <<>>]
  /\ messages' = HistClear
  /\ nOps' = nOps + 1
  /\ UNCHANGED <<mainVars, concVars, parseVars, termVars, tableVars,
                 availableModels, model, optMax, maxMessages, appended>>

\* A successful turn with Model: state.GetModel()
CmdTurn ==
  /\ nOps < MaxCmds
  /\ cmd' = [name |-> "chat", selection |-> model]
  /\ \E u \in {<<"u">>, <<"v">>} :
       /\ messages' = HistAdd(HistAdd(messages, maxMessages, UserMessage(u)),
                              maxMessages, ModelMessage(<<"m">>))
       /\ appended' = appended \o <<UserMessage(u), ModelMessage(<<"m">>)>>
  /\ nOps' = nOps + 1
  /\ UNCHANGED <<mainVars, concVars, parseVars, termVars, tableVars,
                 availableModels, model, optMax, maxMessages>>

\* HistoryCommand.Execute: "Conversation pairs: %d" prints stats.UserMessages
ConversationPairs(msgs) == Stats(msgs).UserMessages

\* Turns and resets at the prompt over a window of any capacity
PairsNext == CmdTurn \/ ResetCommand

SpecPairs == HistInit /\ [][PairsNext]_vars

CmdNext == ModelCommand \/ ResetCommand \/ CmdTurn

SpecCmd == CmdInit /\ [][CmdNext]_vars

(* ============================== input parser ========================= *)

\* The cutset of isImageFile's strings.TrimRight
TrailingPunctuation == {".", ",", "!", "?", ";", ":"}

\* The prompt ParseLine substitutes for an empty text
DefaultPrompt ==
  <<"Describe", " ", "this", " ", "image", " ", "in", " ", "detail", ".">>

\* os.Stat(path) returns no error and the entry is not a directory.  The
\* environments hold regular files only.
StatFile(env, path) == \E f \in env.files : f.path = path

\* parser.isImageFile
isImageFile(env, path) ==
  LET stripped == TrimRight(path, TrailingPunctuation)
  IN /\ StatFile(env, stripped)
     /\ ToLower(Ext(stripped)) \in
          {<<".", "png">>, <<".", "jpg">>, <<".", "jpeg">>, <<".", "webp">>,
           <<".", "gif">>, <<".", "bmp">>}

\* parser.ParseLine
ParseLine(env, l) ==
  LET trimmed == TrimSpace(l)
      out == [Mode |-> "", Text |-> <<>>, ImagePaths |-> <<>>, Raw |-> l]
      tokens == Fields(trimmed)
      imgs == SelectSeq(tokens, LAMBDA tok : isImageFile(env, tok))
      textTokens == SelectSeq(tokens, LAMBDA tok : ~isImageFile(env, tok))
      text == TrimSpace(Join(textTokens))
  IN IF trimmed = <<>> THEN out
     ELSE [out EXCEPT
             !.ImagePaths = imgs,
             !.Mode = IF Len(imgs) > 0 THEN "vision" ELSE "chat",
             !.Text = IF text = <<>> /\ Len(imgs) > 0
                      THEN DefaultPrompt ELSE text]

\* The lines resolved: every line of at most MaxLineLen symbols over the
\* alphabet, and two longer ones.
LineAlphabet == {" ", ".", ",", "/", "w", "png", "tiff"}

LongLines ==
  {<<"describe", " ", ".", "/", "diagram", ".", "png", " ", "please">>,
   <<".", "/", "only", ".", "jpg">>}

Lines == SeqsUpTo(LineAlphabet, MaxLineLen) \cup LongLines

\* The files that exist in the environment that has any
ParseFiles ==
  {<<"w", ".", "png">>, <<"w", ".", "tiff">>,
   <<".", "/", "diagram", ".", "png">>, <<".", "/", "only", ".", "jpg">>}

ParseEnvs ==
  {NoFiles,
   [home |-> TRUE, files |-> {[path |-> f, ctype |-> ""] : f \in ParseFiles}]}

\* main waiting in Readline for its first line, which is to be rawLine
ParseInit ==
  /\ pc = "read" /\ lpc = "recv" /\ mu = "free" /\ genCancel = Nil
  /\ canceled = {} /\ turn = 0 /\ sigChan = <<>> /\ lisSig = Nil /\ nSig = 0
  /\ storeOk = TRUE /\ dbTurns = <<>> /\ dbHistory = <<>>
  /\ lastResponse = <<>>
  /\ NewHistoryManager(MainMaxMessages)
  /\ userInput = <<>> /\ imagePaths = <<>>
  /\ fs \in ParseEnvs
  /\ reqHistory = <<>> /\ sent = <<>> /\ arrivals = <<>>
  /\ elapsed = 0 /\ chunkCount = 0
  /\ firstChunkTime = ZeroTime /\ output = <<>> /\ sunk = <<>>
  /\ resp = ZeroResponse
  /\ outcome = "none" /\ endCause = "none"
  /\ nCancels = 0 /\ cancelAt = NoCancel
  /\ appended = <<>> /\ nOps = 0
  /\ heap = <<>> /\ hslice = EmptySlice /\ hmu = Unlocked
  /\ wpc = "idle" /\ warg = <<>> /\ pre = <<>> /\ post = <<>>
  /\ rpc = "idle" /\ got = NoRead /\ snap = EmptySlice /\ nReads = 0
  /\ rawLine \in Lines
  /\ parsed = <<>>
  /\ term = <<>> /\ cbpc = "idle" /\ firstChunk = TRUE
  /\ TableAtRest
  /\ CmdAtRest

\* main reads rawLine and resolves it
MainResolve == ReadChat({rawLine})

\* parser.ParseLine is applied to rawLine
Parse ==
  /\ parsed = <<>>
  /\ parsed' = <<ParseLine(fs, rawLine)>>
  /\ UNCHANGED <<mainVars, histVars, logVars, concVars, tableVars,
                 cmdVars, termVars, rawLine>>

ParseNext == MainResolve \/ Parse

SpecParse == ParseInit /\ [][ParseNext]_vars

(* ============================== properties =========================== *)

\* The step in which the listener runs its critical section.
HandlerStep == lpc = "crit" /\ lpc' = "recv"

\* The foreground loop is between the return of RunWithStreaming and the end
\* of cleanup().
AfterInspect == pc \in {"cleanup", "cleanupLock", "cleanupClear"}

\* Contexts created by the loop and not yet cancelled.
LiveCtx == {t \in 1..turn : ~CtxCanceled(t)}

\* The newest min(n, Len(s)) elements of s, in order.
LastN(s, n) ==
  LET k == IF Len(s) < n THEN Len(s) ELSE n
  IN [i \in 1..k |-> s[Len(s) - k + i]]

\* C1: whenever the listener invokes a cancel function, the signal it is
\* handling was raised while that same turn was armed (an interrupt raised
\* while idle or during an earlier turn never cancels a later turn).
C1_NoLeak ==
  [][(HandlerStep /\ genCancel # Nil) => lisSig = genCancel]_vars

\* C2: when the foreground loop is about to read the next line (or has left
\* the loop), the cancellation handle is nil, whatever the turn's outcome.
C2_ClearedAtTurnEnd ==
  pc \in {"read", "done"} => genCancel = Nil

C2_Witness ==
  /\ pc = "read" /\ turn > 0 /\ outcome = "cancelled" /\ genCancel = Nil

\* C3: once RunWithStreaming has returned and main is about to inspect the
\* result, the handle has already been cleared.
C3_ClearedBeforeInspect ==
  pc = "inspect" => genCancel = Nil

\* C4: at most one context is live at any time, the stored handle is the one
\* of the latest turn, and when the loop arms a new handle the register is
\* empty and every earlier generation has returned and been cleaned up.
C4_SingleFlight ==
  /\ Cardinality(LiveCtx) <= 1
  /\ genCancel # Nil => genCancel = turn
  /\ pc = "run" => genCancel = turn
  /\ pc \in {"armLock", "arm"} =>
       /\ genCancel = Nil
       /\ LiveCtx = {}
       /\ endCause = "none"

C4_Witness ==
  /\ pc = "arm" /\ turn >= 1 /\ genCancel = Nil /\ LiveCtx = {}

\* C5: a handler step that finds a handle cancels that turn's context and
\* leaves the register as it was; when the context is already cancelled the
\* step changes nothing of the generation.
C5_CancelLeavesHandle ==
  [][(HandlerStep /\ genCancel # Nil) =>
        /\ genCancel' = genCancel
        /\ genCancel \in canceled'
        /\ CtxCanceled(genCancel) =>
             /\ canceled' = canceled
             /\ UNCHANGED <<pc, turn, genVars, outcome, endCause, storeVars,
                            lastResponse, histVars>>]_vars

C5_Witness ==
  /\ nCancels = 2 /\ genCancel # Nil /\ CtxCanceled(genCancel)

\* C6: a handler step that finds no handle changes nothing but the listener's
\* own position and the mutex it releases.
C6_IdleInterruptNoOp ==
  [][(HandlerStep /\ genCancel = Nil) =>
        UNCHANGED <<pc, genCancel, canceled, turn, sigChan, nSig, storeVars,
                    lastResponse, histVars, genVars, logVars>>]_vars

C6_Witness ==
  /\ pc = "read" /\ turn = 0 /\ nSig = 1 /\ sigChan = <<>> /\ lpc = "recv"
  /\ canceled = {} /\ nCancels = 0

C8_CancelledIffCtx ==
  AfterInspect => (outcome = "cancelled" <=> endCause = "ctx")

\* C9: under Add alone, a window of capacity c > 0 never holds more than c
\* messages and holds exactly the newest min(n, c) appended, in order.
C9_AppendWindow ==
  maxMessages > 0 =>
    /\ Count(messages) <= maxMessages
    /\ messages = LastN(appended, maxMessages)

C9_Witness ==
  /\ maxMessages > 0 /\ Len(appended) > maxMessages
  /\ Count(messages) = maxMessages

\* C10: under Add, Set and Clear, a window of capacity c > 0 never holds more
\* than c messages.
C10_SizeBound ==
  maxMessages > 0 => Len(messages) <= maxMessages

\* C11: after Set(msgs) a window of capacity c > 0 holds exactly the newest
\* min(len(msgs), c) messages of msgs, in order.
C11_SetTailPreserving ==
  (nOps > 0 /\ maxMessages > 0) => messages = LastN(appended, maxMessages)

\* C12 as stated: a window built with capacity 0 or a negative capacity
\* behaves as one of the default capacity: it holds the newest min(n, 5)
\* messages appended, so it evicts once more than 5 were appended.
C12_ZeroOrNegativeIsDefault ==
  optMax <= 0 =>
    /\ Count(messages) <= DefaultMaxMessages
    /\ messages = LastN(appended, DefaultMaxMessages)

\* C12 as amended: a negative capacity becomes the default and the window
\* holds the newest min(n, 5) messages appended; capacity 0 stays 0 and the
\* window holds every message appended.
C12_NegativeIsDefault ==
  /\ optMax < 0 =>
       /\ maxMessages = DefaultMaxMessages
       /\ Count(messages) <= DefaultMaxMessages
       /\ messages = LastN(appended, DefaultMaxMessages)
  /\ optMax = 0 =>
       /\ maxMessages = 0
       /\ messages = appended

C12_Witness ==
  /\ optMax < 0 /\ Len(appended) > DefaultMaxMessages
  /\ Count(messages) = DefaultMaxMessages

\* C13: no step but the return of a later GetAll changes what a returned
\* snapshot holds; every read returns what it would return of the window as
\* it was before the mutation in progress or as that mutation is to leave it;
\* and a mutation releases the lock with the window its atomic form gives.
C13_SnapshotIsolation ==
  [][/\ rpc # "GetAll" => View(heap', snap') = View(heap, snap)
     /\ (rpc \in ReadOps /\ rpc' = "runlock") =>
          got'.val \in {Obs(rpc, pre), Obs(rpc, post)}
     /\ (wpc # "unlock" /\ wpc' = "unlock") => messages' = post]_vars

C13_Witness ==
  /\ wpc = "enforce" /\ Len(messages) > maxMessages
  /\ snap.len > 0 /\ View(heap, snap) = pre /\ View(heap, snap) # post
  /\ got.op = "GetAll"

\* The texts of a sequence of chunks, concatenated in order.
RECURSIVE Concat(_)
Concat(chunks) ==
  IF chunks = <<>> THEN <<>> ELSE Head(chunks) \o Concat(Tail(chunks))

\* The step in which generate() returns its response.
GenerateReturns == pc = "run" /\ pc' = "inspect"

\* C14: when generate() returns, Chunks is the number of chunk callbacks,
\* TTFCMs is the arrival time of the first one, DurationMs is not before
\* the arrival of the last one, and on success Output is the concatenation
\* of the chunk texts in the order they were sunk.
C14_StreamMetrics ==
  [][GenerateReturns =>
       /\ resp'.Chunks = Len(arrivals)
       /\ resp'.Chunks = Len(sunk)
       /\ arrivals # <<>> =>
            /\ resp'.TTFCMs = arrivals[1]
            /\ resp'.DurationMs >= arrivals[Len(arrivals)]
       /\ resp'.Error = "nil" => resp'.Output = Concat(sunk)]_vars

C14_Witness ==
  /\ pc = "inspect" /\ resp.Error = "nil" /\ resp.Chunks = 2
  /\ resp.TTFCMs = 1 /\ resp.DurationMs = 2
  /\ resp.Output = <<"H", "e", "l", "l", "o">>
  /\ sunk = <<<<"H", "e", "l">>, <<"l", "o">>>>

\* C15: in every response, returned with or without an error, TTFCMs is at
\* most DurationMs when chunks arrived and is 0 when none did.
C15_TTFCWithinDuration ==
  /\ resp.Chunks > 0 => (0 <= resp.TTFCMs /\ resp.TTFCMs <= resp.DurationMs)
  /\ resp.Chunks = 0 => resp.TTFCMs = 0

C15_Witness ==
  /\ pc = "inspect" /\ resp.Error = "canceled" /\ resp.Chunks > 0
  /\ resp.TTFCMs = 1 /\ resp.DurationMs = 1

\* C16: the messages handed to the backend are the history snapshot of the
\* request, element for element, followed by one user message carrying the
\* line of the turn; the snapshot is the window as it was at the call.
C16_HistoryThenCurrent ==
  pc \in {"run", "inspect"} =>
    /\ reqHistory = messages
    /\ Len(sent) = Len(reqHistory) + 1
    /\ \A i \in 1..Len(reqHistory) : sent[i] = reqHistory[i]
    /\ sent[Len(sent)].role = "user"
    /\ sent[Len(sent)].text = userInput

C16_Witness ==
  /\ pc = "inspect" /\ Len(reqHistory) = 2 /\ Len(sent) = 3
  /\ "media" \in DOMAIN sent[3]

\* The paths of the request that load, in request order.
Loadable == SelectSeq(imagePaths, LAMBDA path : LoadImage(fs, path).ok)

\* C17: the current message carries the text first and one media part per
\* path that loads, in request order, and is a text-only message when none
\* loads (as when the only path ends in .tiff); ImagesLoaded is the number
\* of paths that loaded; whether the response carries an error depends on
\* the backend alone.
C17_ImagesIndependent ==
  pc \in {"run", "inspect"} =>
    LET cur == sent[Len(sent)]
    IN /\ resp.ImagesLoaded = Len(Loadable)
       /\ IF Loadable = <<>> THEN cur = UserMessage(userInput)
          ELSE /\ cur.text = userInput
               /\ Len(cur.media) = Len(Loadable)
               /\ \A i \in 1..Len(Loadable) :
                    cur.media[i].src = ExpandHome(Loadable[i])
       /\ imagePaths = <<<<"x", ".", "tiff">>>> =>
            (cur = UserMessage(userInput) /\ resp.ImagesLoaded = 0)
       /\ pc = "inspect" => (resp.Error = "nil" <=> endCause = "complete")

C17_Witness ==
  /\ pc = "inspect" /\ resp.Error = "nil" /\ resp.ImagesLoaded = 1
  /\ imagePaths = <<<<"x", ".", "tiff">>, <<".", "/", "d", ".", "png">>>>
  /\ [path |-> <<"x", ".", "tiff">>, ctype |-> ""] \in fs.files

\* The classification the specification gives a token: its extension, once
\* the trailing punctuation is stripped, is a supported one.
IsImageReference(tok) ==
  ToLower(Ext(TrimRight(tok, TrailingPunctuation))) \in
    DOMAIN SupportedImageFormats

Range(seq) == {seq[i] : i \in 1..Len(seq)}

\* C18: resolving a raw line partitions its tokens, in order, into image paths
\* and text tokens: the cleaned text is the non-image tokens joined by single
\* spaces, or "Describe this image in detail." when that is empty and an image
\* was found, and the image path list is the image tokens in order.  Stated of
\* the request main builds from the line and of the value ParseLine returns.
C18_CleanedTextAndPaths ==
  LET toks == Fields(rawLine)
      imgs == SelectSeq(toks, IsImageReference)
      text == Join(SelectSeq(toks, LAMBDA tok : ~IsImageReference(tok)))
      cleaned == IF text = <<>> /\ imgs # <<>> THEN DefaultPrompt ELSE text
  IN /\ pc = "armLock" => userInput = cleaned /\ imagePaths = imgs
     /\ parsed # <<>> =>
          parsed[1].Text = cleaned /\ parsed[1].ImagePaths = imgs

\* C19: a token is classified as an image reference exactly when its
\* extension, after the trailing punctuation is stripped, is one of png, jpg,
\* jpeg, webp, gif, bmp, whether or not the file exists.  Stated of the tokens
\* main's scan of the line returns and of those ParseLine returns.
C19_ClassifiedByExtension ==
  \A tok \in Range(Fields(rawLine)) :
    /\ pc = "armLock" => (tok \in Range(imagePaths) <=> IsImageReference(tok))
    /\ parsed # <<>> =>
         (tok \in Range(parsed[1].ImagePaths) <=> IsImageReference(tok))

C21_WritesNotInterleaved ==
  /\ \A i \in 1..Len(term) :
       term[i].by = "main" \/ term[i].mu = term[i].by
  /\ \A i \in 1..(Len(term) - 1) :
       (term[i].by = "listener" /\ term[i].text = "newline")
         => term[i + 1].by = "listener"

\* C22: once a SaveHistory(m) has committed, LoadHistory returns the messages
\* of m in order, whatever the table held before, and the window main restores
\* with Set at the next start is the window it saved at exit.
C22_SaveLoadRoundTrip ==
  /\ lastSaved # <<>> => LoadHistory(chatHistory) = lastSaved[1]
  /\ (run.at = "started" /\ dbLoad.ok /\ lastSaved # <<>>)
       => messages = lastSaved[1]

C22_Witness ==
  /\ run.at = "started" /\ run.n = MaxRuns /\ dbLoad.ok
  /\ lastSaved # <<>> /\ Len(lastSaved[1]) = 4
  /\ messages = lastSaved[1]
  /\ \E r \in chatHistory : r.id > 6

\* C30: the active model is always a non-empty member of the available
\* models, and a /model selection that is empty, out of range or matches no
\* model leaves the active model and the history window as they were.
C30_ModelAlwaysAvailable ==
  /\ [](model # <<>> /\ \E i \in 1..Len(availableModels) :
                          availableModels[i] = model)
  /\ [][(/\ cmd'.name = "model"
          /\ \/ cmd'.selection = <<>>
             \/ /\ Atoi(cmd'.selection).ok
                /\ Atoi(cmd'.selection).num \notin 1..Len(availableModels)
             \/ /\ ~Atoi(cmd'.selection).ok
                /\ \A i \in 1..Len(availableModels) :
                     ~Contains(ToLower(availableModels[i]),
                               ToLower(cmd'.selection)))
           => model' = model /\ messages' = messages]_vars

C30_Witness ==
  /\ cmd.name = "model" /\ cmd.selection = <<"3">>
  /\ Len(availableModels) = 2 /\ model = availableModels[2]
  /\ Count(messages) = 2

\* C23: the history window is empty after every change of the active model to
\* a different one and after every /reset; selecting the model that is already
\* active leaves the window as it was.
C23_ClearedOnSwitchAndReset ==
  [][/\ model' # model => Count(messages') = 0
     /\ cmd'.name = "reset" => Count(messages') = 0
     /\ (/\ cmd'.name = "model"
         /\ parseSelection(availableModels, cmd'.selection) = model)
          => messages' = messages /\ model' = model]_vars

C23_Witness ==
  /\ cmd.name = "model"
  /\ parseSelection(availableModels, cmd.selection) = model
  /\ model # availableModels[1]
  /\ Count(messages) = 0 /\ Len(appended) = 2

\* C24: from the call of RunWithStreaming to its return, whatever the outcome,
\* the history window, the request's history slice, the stored turns, the
\* stored history and the last response stay as they were; the sink has been
\* invoked once for each chunk counted.
C24_OrchestratorFrame ==
  [][(pc = "call" \/ pc = "run") =>
       (/\ messages' = messages
        /\ dbTurns' = dbTurns /\ dbHistory' = dbHistory
        /\ lastResponse' = lastResponse
        /\ (pc = "run" => reqHistory' = reqHistory)
        /\ (pc' = "run" => Len(sunk') = chunkCount')
        /\ (pc' = "inspect" => Len(sunk') = resp'.Chunks))]_vars

C24_Witness ==
  /\ pc = "inspect" /\ turn = MaxTurns
  /\ Len(messages) >= 2 /\ reqHistory = messages
  /\ resp.Chunks = MaxChunks /\ Len(sunk) = MaxChunks

C27_NoCancelledSuccess ==
  (AfterInspect /\ outcome = "success") => nCancels = 0

\* C28: when the store failed to open at startup (store == nil) the program
\* goes on without it: it does not crash on the missing store and reaches
\* the read loop.
C28_RunsWithoutStore ==
  ~storeOk => pc # "panic"

\* C29: while main waits for input the window is empty or ends with an
\* assistant message, its roles alternate, and the "Conversation pairs" that
\* /history prints is the number of user messages directly followed by an
\* assistant message, for every capacity, after turns, evictions and resets.
C29_PairsAreUserMessages ==
  LET n == Len(messages)
  IN /\ n = 0 \/ messages[n].role = "model"
     /\ \A i \in 1..(n - 1) : messages[i].role # messages[i + 1].role
     /\ ConversationPairs(messages) =
          Cardinality({i \in 1..(n - 1) :
                         /\ messages[i].role = "user"
                         /\ messages[i + 1].role = "model"})

C29_Witness ==
  /\ maxMessages = 1 /\ Len(appended) = 2 * MaxCmds
  /\ Len(messages) = 1 /\ ConversationPairs(messages) = 0

\* C25: the foreground goroutine never holds the history mutex and the
\* cancellation mutex together and the listener never takes the history
\* mutex; a goroutine that waits for the cancellation mutex waits for a
\* holder that can take its next step, so the two paths never deadlock.
C25_MutexesIndependent ==
  /\ ~(mu = "main" /\ hmu # Unlocked)
  /\ (lpc = "lock" /\ mu = "main")
       => (pc \in {"arm", "cleanupClear"} /\ hmu = Unlocked)
  /\ (pc \in {"armLock", "cleanupLock"} /\ mu = "listener") => lpc = "crit"
  /\ (pc \in {"armLock", "cleanupLock"}) => hmu = Unlocked

C25_Witness ==
  /\ pc = "inspect" /\ hmu.writer /\ mu = "listener" /\ lpc = "crit"
  /\ genCancel # Nil

====
